---- MODULE Spec2Model ----
(***************************************************************************)
(* A model of news_digest.py: the fetch / dedupe / enrich / record /       *)
(* deliver pipeline of main(), the seen-article table behind add_seen and  *)
(* is_seen, and the pure helpers the pipeline is built from.               *)
(*                                                                         *)
(* Strings are sequences of natural numbers (characters 1, 2, ...), so     *)
(* that concatenation, truthiness and lexical comparison are computed as   *)
(* Python computes them.  Python's None is the value NONE, which is no     *)
(* string of the model (0 is no character).                                *)
(*                                                                         *)
(* Four specifications share the operators:                                *)
(*   Spec       consecutive invocations of main() on one table;            *)
(*   SpecTable  add_seen and is_seen on the table, row by row;             *)
(*   SpecGroup  group_by_topic on any list of items;                       *)
(*   SpecRace   two invocations of main() at the same time on one table.   *)
(* Each one leaves the variables of the others at their initial values.    *)
(***************************************************************************)
EXTENDS Integers, Sequences, FiniteSets, TLC

\* ------------------------------------------------------------------------
\* Bounds of the model
\* ------------------------------------------------------------------------
MaxNews == 2
MaxFeeds == 2
MaxEntries == 1
MaxMaxStories == 2
MaxRuns == 2
MaxRows == 4
MaxRestarts == 2
MaxItems == 3
MaxRaceNews == 1
MaxRaceFeeds == 1

\* ------------------------------------------------------------------------
\* Python values
\* ------------------------------------------------------------------------
NONE == <<0>>

\* Python truthiness of a str-or-None value: None and "" are falsy.
Truthy(v) == v # NONE /\ v # <<>>

\* Python's  a or b
Or(a, b) == IF Truthy(a) THEN a ELSE b

Min(a, b) == IF a <= b THEN a ELSE b

SeqsUpTo(S, n) == UNION {[1..k -> S] : k \in 0..n}

\* Python's  a < b  on two str values (comparison by code point, a proper
\* prefix is smaller).
LexLess(a, b) ==
    \E i \in 1..Len(b) :
        /\ \A j \in 1..(i - 1) : j <= Len(a) /\ a[j] = b[j]
        /\ \/ i = Len(a) + 1
           \/ i <= Len(a) /\ a[i] < b[i]

\* ------------------------------------------------------------------------
\* What the outside world can hand to the two source adapters
\* ------------------------------------------------------------------------
SRC_NEWSAPI == <<8>>
SRC_RSS == <<9>>

\* Records of the NewsAPI "articles" array: url, title, publishedAt.
NewsRecords ==
    { [url |-> <<1>>, title |-> <<2>>, publishedAt |-> <<2>>],
      [url |-> NONE,  title |-> <<1>>, publishedAt |-> <<1, 2>>],
      [url |-> <<>>,  title |-> <<3>>, publishedAt |-> NONE],
      [url |-> NONE,  title |-> NONE,  publishedAt |-> <<2>>] }

\* Entries of a parsed feed: link, id, title, published, updated.
RssEntries ==
    { [link |-> <<1>>, id |-> NONE,  title |-> <<2>>, published |-> <<1, 2>>, updated |-> NONE],
      [link |-> NONE,  id |-> <<4>>, title |-> <<2>>, published |-> NONE,     updated |-> <<2>>],
      [link |-> NONE,  id |-> NONE,  title |-> <<3>>, published |-> NONE,     updated |-> NONE],
      [link |-> NONE,  id |-> NONE,  title |-> NONE,  published |-> <<1>>,    updated |-> NONE] }

\* A configured feed: feedparser.parse either raises (broken) or yields entries.
Feeds == [broken : BOOLEAN, entries : SeqsUpTo(RssEntries, MaxEntries)]

\* ------------------------------------------------------------------------
\* fetch_newsapi: the articles list built from a response with status "ok"
\* ------------------------------------------------------------------------
NewsItem(a) ==
    [id |-> a.url, title |-> a.title, url |-> a.url,
     source |-> SRC_NEWSAPI, published |-> a.publishedAt]

fetch_newsapi(data) == [i \in 1..Len(data) |-> NewsItem(data[i])]

\* ------------------------------------------------------------------------
\* fetch_rss_feeds
\* ------------------------------------------------------------------------
\* e.get('published', '')
PublishedOrEmpty(e) == IF e.published = NONE THEN <<>> ELSE e.published

\* e.get('title') + e.get('published', '') raises TypeError when the title is
\* None; the expression is evaluated only when link and id are both falsy.
EntryRaises(e) == ~Truthy(e.link) /\ ~Truthy(e.id) /\ e.title = NONE

RssItem(e) ==
    [id |-> Or(e.link, Or(e.id, e.title \o PublishedOrEmpty(e))),
     title |-> e.title, url |-> e.link,
     source |-> SRC_RSS,
     published |-> Or(e.published, Or(e.updated, <<>>))]

\* The entries of one feed appended to results until one raises; what was
\* appended before the exception stays in results.
RECURSIVE RssFeedItems(_)
RssFeedItems(entries) ==
    IF entries = <<>> THEN <<>>
    ELSE IF EntryRaises(Head(entries)) THEN <<>>
    ELSE <<RssItem(Head(entries))>> \o RssFeedItems(Tail(entries))

RECURSIVE fetch_rss_feeds(_)
fetch_rss_feeds(feeds) ==
    IF feeds = <<>> THEN <<>>
    ELSE (IF Head(feeds).broken THEN <<>> ELSE RssFeedItems(Head(feeds).entries))
         \o fetch_rss_feeds(Tail(feeds))

\* ------------------------------------------------------------------------
\* sorted(all_articles, key=lambda x: x.get('published') or "", reverse=True)
\* ------------------------------------------------------------------------
SortKey(x) == Or(x.published, <<>>)

\* x goes before the first element whose key is smaller than x's: equal keys
\* keep their original order (Python's sort is stable, also with reverse).
InsertDescFlip(s, x) ==
    LET smaller == {p \in 1..Len(s) : LexLess(SortKey(x), SortKey(s[p]))}
        pos == IF smaller = {} THEN Len(s) + 1
               ELSE CHOOSE p \in smaller : \A q \in smaller : p <= q
    IN  SubSeq(s, 1, pos - 1) \o <<x>> \o SubSeq(s, pos, Len(s))

InsertDesc(s, x) ==
    LET smaller == {p \in 1..Len(s) : LexLess(SortKey(s[p]), SortKey(x))}
        pos == IF smaller = {} THEN Len(s) + 1
               ELSE CHOOSE p \in smaller : \A q \in smaller : p <= q
    IN  SubSeq(s, 1, pos - 1) \o <<x>> \o SubSeq(s, pos, Len(s))

RECURSIVE SortedDescFrom(_, _)
SortedDescFrom(acc, rest) ==
    IF rest = <<>> THEN acc
    ELSE SortedDescFrom(InsertDesc(acc, Head(rest)), Tail(rest))

sorted_by_published(articles) == SortedDescFrom(<<>>, articles)

\* ------------------------------------------------------------------------
\* The seen_articles table: the set of its article_id values
\* ------------------------------------------------------------------------
is_seen_never(st, article_id) == FALSE

is_seen(st, article_id) == article_id \in st

\* ------------------------------------------------------------------------
\* dedupe_and_filter
\* ------------------------------------------------------------------------
\* key = a.get('id') or a.get('url') or a.get('title')
ItemKey(a) == Or(a.id, Or(a.url, a.title))

InUniqueNever(unique, key) == FALSE

\* key in unique
InUnique(unique, key) == \E i \in 1..Len(unique) : ItemKey(unique[i]) = key

RECURSIVE DedupeFrom(_, _, _)
DedupeFrom(unique, rest, st) ==
    IF rest = <<>> THEN unique
    ELSE LET a == Head(rest)
             key == ItemKey(a)
         IN  IF ~Truthy(key) THEN DedupeFrom(unique, Tail(rest), st)
             ELSE IF is_seen(st, key) THEN DedupeFrom(unique, Tail(rest), st)
             ELSE IF InUnique(unique, key) THEN DedupeFrom(unique, Tail(rest), st)
             ELSE DedupeFrom(Append(unique, a), Tail(rest), st)

dedupe_and_filter(articles, st) == DedupeFrom(<<>>, articles, st)

\* The items for which dedupe_and_filter calls is_seen: those with a key.
SeenChecks(articles) == {i \in 1..Len(articles) : Truthy(ItemKey(articles[i]))}

\* candidates[:MAX_STORIES]
TakeAll(c, n) == c

Take(c, n) ==
    IF n >= 0 THEN SubSeq(c, 1, Min(n, Len(c)))
    ELSE SubSeq(c, 1, IF Len(c) + n > 0 THEN Len(c) + n ELSE 0)

\* ------------------------------------------------------------------------
\* normalize_date
\* ------------------------------------------------------------------------
\* The date strings dateparser.parse understands; the others yield None.
ParseableDates == {<<2>>, <<1, 2>>}

\* strftime("%Y-%m-%d %H:%M %Z") of the parsed date: the date reformatted,
\* with the zone name appended.
TZ_SUFFIX == <<7>>

normalize_date(d) ==
    IF ~Truthy(d) THEN NONE
    ELSE IF d \notin ParseableDates THEN NONE
    ELSE d \o TZ_SUFFIX

\* ------------------------------------------------------------------------
\* call_llm_for_article
\* ------------------------------------------------------------------------
\* Scores are in hundredths (0.5 is 50); NO_SCORE stands for Python's None.
\* NO_SENTIMENT stands for None in the sentiment field.
SUMMARY_LIMIT == 400
DEFAULT_SCORE == 50
NO_SCORE == -1
NO_SENTIMENT == "None"

\* The tags value: None (kind none), a list of tag names (kind list), a list
\* whose first element is itself a list or a dict, which Python cannot hash
\* (kind badlist), or a true value that is no list, such as a string (kind
\* scalar).
NoTags == [kind |-> "none", items |-> <<>>]
TagList(items) == [kind |-> "list", items |-> items]
NestedTags == [kind |-> "badlist", items |-> <<>>]
ScalarTags == [kind |-> "scalar", items |-> <<>>]

\* The quote character of a JSON string literal.
QUOTE == 9

\* str(json.loads(out)) for a JSON text that is a string literal (the quotes
\* go) or a number (unchanged).
StrOfJson(out) ==
    IF Len(out) >= 2 /\ out[1] = QUOTE /\ out[Len(out)] = QUOTE
    THEN SubSeq(out, 2, Len(out) - 1)
    ELSE out

\* What the completion call can do: raise, answer text that json.loads
\* rejects, or answer JSON (an object, or a JSON value that is no object).
LlmResponses ==
    { [kind |-> "fail", out |-> <<>>, isdict |-> FALSE,
       summary |-> NONE, tags |-> NoTags, sentiment |-> NO_SENTIMENT, score |-> NO_SCORE],
      [kind |-> "text", out |-> <<5, 5>>, isdict |-> FALSE,
       summary |-> NONE, tags |-> NoTags, sentiment |-> NO_SENTIMENT, score |-> NO_SCORE],
      [kind |-> "json", out |-> <<6>>, isdict |-> TRUE,
       summary |-> <<6>>, tags |-> TagList(<<"AI", "Markets">>), sentiment |-> "Positive", score |-> 83],
      [kind |-> "json", out |-> <<4>>, isdict |-> TRUE,
       summary |-> NONE, tags |-> NoTags, sentiment |-> NO_SENTIMENT, score |-> NO_SCORE],
      [kind |-> "json", out |-> <<QUOTE, 5, QUOTE>>, isdict |-> FALSE,
       summary |-> NONE, tags |-> NoTags, sentiment |-> NO_SENTIMENT, score |-> NO_SCORE],
      [kind |-> "json", out |-> <<6, 6>>, isdict |-> TRUE,
       summary |-> <<6, 6>>, tags |-> NestedTags, sentiment |-> "Negative", score |-> 10] }

\* The value call_llm_for_article returns: a dict (isdict) with its four
\* entries, or the non-dict JSON value whose str() is text.
Fallback(summary) ==
    [isdict |-> TRUE, text |-> <<>>, summary |-> summary,
     tags |-> TagList(<<"Other">>), sentiment |-> "Neutral", score |-> DEFAULT_SCORE]

call_llm_for_article(article, resp) ==
    IF resp.kind = "fail" THEN Fallback(Or(article.title, <<>>))
    ELSE IF resp.kind = "text" THEN Fallback(Take(resp.out, SUMMARY_LIMIT))
    ELSE [isdict |-> resp.isdict, text |-> StrOfJson(resp.out), summary |-> resp.summary,
          tags |-> resp.tags, sentiment |-> resp.sentiment, score |-> resp.score]

\* The info dict main() appends to processed for candidate a.
DigestItem(a, llm) ==
    [title |-> a.title, url |-> a.url, source |-> a.source,
     published |-> normalize_date(a.published),
     summary |-> IF llm.isdict THEN llm.summary ELSE Take(llm.text, SUMMARY_LIMIT),
     tags |-> IF llm.isdict THEN llm.tags ELSE TagList(<<"Other">>),
     sentiment |-> IF llm.isdict THEN llm.sentiment ELSE "Neutral",
     score |-> IF llm.isdict THEN llm.score ELSE DEFAULT_SCORE]

\* processed after the loop body up to processed.append(info), for candidate
\* a and what the completion call did.
EnrichedDictOnly(done, a, resp) ==
    IF call_llm_for_article(a, resp).isdict
    THEN Append(done, DigestItem(a, call_llm_for_article(a, resp)))
    ELSE done

EnrichedUnlessCallFails(done, a, resp) ==
    IF resp.kind = "fail" THEN done
    ELSE Append(done, DigestItem(a, call_llm_for_article(a, resp)))

Enriched(done, a, resp) == Append(done, DigestItem(a, call_llm_for_article(a, resp)))

\* ------------------------------------------------------------------------
\* add_seen: the table after  conn.execute(ins)  inside try/except
\* ------------------------------------------------------------------------
\* The insert raises, and is swallowed, when article_id is None (NOT NULL),
\* when the value is already in the table (UNIQUE), or when the engine cannot
\* write (exec_ok false); otherwise the row is added.
InsertRaises(st, article_id, exec_ok) ==
    article_id = NONE \/ article_id \in st \/ ~exec_ok

add_seen_replace(st, article_id, exec_ok) ==
    IF InsertRaises(st, article_id, exec_ok) THEN st ELSE {article_id}

add_seen(st, article_id, exec_ok) ==
    IF InsertRaises(st, article_id, exec_ok) THEN st ELSE st \cup {article_id}

\* The same, row by row: tb is the sequence of the article_id column in
\* insertion order.  UNIQUE and NOT NULL are the constraints of the column.
TableKeys == {NONE, <<>>, <<1>>, <<2>>}

Range(tb) == {tb[i] : i \in DOMAIN tb}

InsertRowRaisesNoUnique(tb, article_id, exec_ok) ==
    article_id = NONE \/ ~exec_ok

InsertRowRaises(tb, article_id, exec_ok) ==
    \/ article_id = NONE
    \/ \E i \in DOMAIN tb : tb[i] = article_id
    \/ ~exec_ok

InsertRow(tb, article_id, exec_ok) ==
    IF InsertRowRaises(tb, article_id, exec_ok) THEN tb ELSE Append(tb, article_id)

\* Whether add_seen raises to its caller: engine.connect() is outside the
\* try, the insert's exceptions are caught.
AddSeenRaises(tb, article_id, exec_ok, connect_ok) == ~connect_ok

\* is_seen: fetchone() of the select is not None.
SelectRow(tb, article_id) == \E i \in DOMAIN tb : tb[i] = article_id

\* The table after send_email_via_sendgrid's except clause (print, raise):
\* nothing is deleted.  st0 is the table at the start of the run.
after_send_error_rollback(st, st0) == st0

after_send_error(st, st0) == st

\* ------------------------------------------------------------------------
\* group_by_topic: the dict as the sequence of its (tag, items) entries in
\* insertion order
\* ------------------------------------------------------------------------
PrimaryTagLast(it) ==
    IF it.tags.kind = "list" /\ it.tags.items # <<>>
    THEN it.tags.items[Len(it.tags.items)]
    ELSE "Other"

PrimaryTag(it) ==
    IF it.tags.kind = "list" /\ it.tags.items # <<>> THEN it.tags.items[1] ELSE "Other"

AddToGroup(grouped, it) ==
    LET primary == PrimaryTag(it)
    IN  IF \E g \in 1..Len(grouped) : grouped[g].tag = primary
        THEN [g \in 1..Len(grouped) |->
                 IF grouped[g].tag = primary
                 THEN [tag |-> primary, items |-> Append(grouped[g].items, it)]
                 ELSE grouped[g]]
        ELSE Append(grouped, [tag |-> primary, items |-> <<it>>])

\* `primary not in grouped` raises TypeError when primary cannot be hashed.
GroupingRaises(items) == \E i \in DOMAIN items : items[i].tags.kind = "badlist"

RECURSIVE GroupFrom(_, _)
GroupFrom(grouped, rest) ==
    IF rest = <<>> THEN grouped
    ELSE GroupFrom(AddToGroup(grouped, Head(rest)), Tail(rest))

group_by_topic(items) == GroupFrom(<<>>, items)

\* main:  if processed:
ShouldSendAlways(done) == TRUE

ShouldSend(done) == done # <<>>

\* ------------------------------------------------------------------------
\* State
\* ------------------------------------------------------------------------
VARIABLES
    pc,                \* where main() is: Idle, Fetching, FetchingRss, Deduping,
                       \* Truncating, Enriching, Grouping, Delivering, Done, Failed
    MAX_STORIES,       \* the configured maximum of this run
    store,             \* article_id values of the seen_articles table
    newsapi_articles,  \* main: newsapi_articles
    rss_articles,      \* main: rss_articles
    all_articles,      \* main: all_articles after sorted()
    deduped,           \* main: candidates as returned by dedupe_and_filter
    candidates,        \* main: candidates after candidates[:MAX_STORIES]
    processed,         \* main: processed
    cursor,            \* main: how many candidates the for loop has taken
    grouped,           \* build_and_send: grouped
    sent,              \* whether sg.send returned for this run's digest
    failure,           \* the exception that left main(): none, fetch,
                       \* store_read, store_write, grouping, delivery
    store0,            \* history: the table when this run started
    wfail,             \* history: an insert of this run raised and added no row
    dropped,           \* history: values recorded by runs whose delivery failed
    runs,              \* history: number of runs started
    deliveries,        \* history: calls of build_and_send in this run
    delivered,         \* history: the stories build_and_send was called with
    prevCut,           \* history: keys the previous run's truncation cut off
    answers            \* history: what the completion call did for each
                       \* element of processed

\* The seen_articles table row by row, for the study of add_seen and is_seen.
VARIABLES
    table,             \* article_id of each row, in insertion order
    t_last,            \* the last call made on the table, and its result
    t_done,            \* history: the values whose insert did not raise
    t_epoch            \* history: how often the script has been started again

\* group_by_topic on its own.
VARIABLES
    g_items,           \* the items it is called with
    g_grouped,         \* the dict it returns
    g_pc               \* idle, ready, done, raised

\* Two invocations of the script at once on one seen_articles table.
VARIABLES
    r_pc,              \* where each invocation's main() is
    r_max,             \* MAX_STORIES of each invocation
    r_all,             \* all_articles of each
    r_idx,             \* how many articles dedupe_and_filter has looked at
    r_cands,           \* unique in dedupe_and_filter, then candidates
    r_processed,       \* processed of each
    r_sent,            \* whether each one's digest was sent
    r_store,           \* the shared table
    r_rec,             \* history: the values each one inserted
    r_first,           \* history: the invocation that started first (0: none)
    r_overlap          \* history: one invocation started while the other was
                       \* running

mainVars == <<pc, MAX_STORIES, store, newsapi_articles, rss_articles, all_articles,
              deduped, candidates, processed, grouped, sent, failure, store0,
              wfail, dropped, runs, cursor, deliveries, delivered, prevCut,
              answers>>

tableVars == <<table, t_last, t_done, t_epoch>>

groupVars == <<g_items, g_grouped, g_pc>>

raceVars == <<r_pc, r_max, r_all, r_idx, r_cands, r_processed, r_sent, r_store,
              r_rec, r_first, r_overlap>>

vars == <<mainVars, tableVars, groupVars, raceVars>>

Procs == {1, 2}

\* The values of the variables a specification does not use.
MainIdle ==
    /\ pc = "Idle"
    /\ MAX_STORIES = 0
    /\ store = {}
    /\ newsapi_articles = <<>>
    /\ rss_articles = <<>>
    /\ all_articles = <<>>
    /\ deduped = <<>>
    /\ candidates = <<>>
    /\ processed = <<>>
    /\ cursor = 0
    /\ grouped = <<>>
    /\ sent = FALSE
    /\ failure = "none"
    /\ store0 = {}
    /\ wfail = FALSE
    /\ dropped = {}
    /\ runs = 0
    /\ deliveries = 0
    /\ delivered = <<>>
    /\ prevCut = {}
    /\ answers = <<>>

TableIdle ==
    /\ table = <<>>
    /\ t_last = [op |-> "none", key |-> NONE, connected |-> FALSE, exec_ok |-> TRUE,
                 before |-> <<>>, result |-> FALSE, raised |-> FALSE]
    /\ t_done = {}
    /\ t_epoch = 0

GroupIdle ==
    /\ g_items = <<>>
    /\ g_grouped = <<>>
    /\ g_pc = "idle"

RaceIdle ==
    /\ r_pc = [p \in Procs |-> "Idle"]
    /\ r_max = [p \in Procs |-> 0]
    /\ r_all = [p \in Procs |-> <<>>]
    /\ r_idx = [p \in Procs |-> 0]
    /\ r_cands = [p \in Procs |-> <<>>]
    /\ r_processed = [p \in Procs |-> <<>>]
    /\ r_sent = [p \in Procs |-> FALSE]
    /\ r_store = {}
    /\ r_rec = [p \in Procs |-> {}]
    /\ r_first = 0
    /\ r_overlap = FALSE

\* No run has started; the seen_articles table is empty.
Init == MainIdle /\ TableIdle /\ GroupIdle /\ RaceIdle

\* The keys of the dedupe output that candidates[:MAX_STORIES] leaves out.
CutKeys == {ItemKey(deduped[i]) : i \in {j \in DOMAIN deduped : j > MAX_STORIES}}

\* ------------------------------------------------------------------------
\* Actions
\* ------------------------------------------------------------------------
\* A new invocation of the script: the module is loaded (configuration read,
\* table opened) and main() is entered.  The table is what earlier runs left.
StartRun ==
    /\ pc \in {"Idle", "Done", "Failed"}
    /\ runs < MaxRuns
    /\ runs' = runs + 1
    /\ pc' = "Fetching"
    /\ MAX_STORIES' \in 0..MaxMaxStories
    /\ store0' = store
    /\ newsapi_articles' = <<>>
    /\ rss_articles' = <<>>
    /\ all_articles' = <<>>
    /\ deduped' = <<>>
    /\ candidates' = <<>>
    /\ processed' = <<>>
    /\ cursor' = 0
    /\ grouped' = <<>>
    /\ sent' = FALSE
    /\ failure' = "none"
    /\ wfail' = FALSE
    /\ deliveries' = 0
    /\ delivered' = <<>>
    /\ prevCut' = CutKeys
    /\ answers' = <<>>
    /\ UNCHANGED <<store, dropped>>
    /\ UNCHANGED <<tableVars, groupVars, raceVars>>

\* fetch_newsapi returns []: NEWSAPI_KEY is not set, or the response's status
\* is not "ok".
FetchNewsapiEmpty ==
    /\ pc = "Fetching"
    /\ newsapi_articles' = <<>>
    /\ pc' = "FetchingRss"
    /\ UNCHANGED <<MAX_STORIES, store, rss_articles, all_articles, deduped,
                   candidates, processed, grouped, sent, failure, store0,
                   wfail, dropped, runs, cursor>>
    /\ UNCHANGED <<deliveries, delivered, prevCut, answers, tableVars, groupVars, raceVars>>

\* fetch_newsapi returns the articles of an "ok" response.
FetchNewsapiOk ==
    /\ pc = "Fetching"
    /\ \E data \in SeqsUpTo(NewsRecords, MaxNews) :
           newsapi_articles' = fetch_newsapi(data)
    /\ pc' = "FetchingRss"
    /\ UNCHANGED <<MAX_STORIES, store, rss_articles, all_articles, deduped,
                   candidates, processed, grouped, sent, failure, store0,
                   wfail, dropped, runs, cursor>>
    /\ UNCHANGED <<deliveries, delivered, prevCut, answers, tableVars, groupVars, raceVars>>

\* requests.get or r.json() raises (network error, timeout, a body that is no
\* JSON): nothing in fetch_newsapi or main catches it.
FetchNewsapiRaises ==
    /\ pc = "Fetching"
    /\ pc' = "Failed"
    /\ failure' = "fetch"
    /\ UNCHANGED <<MAX_STORIES, store, newsapi_articles, rss_articles,
                   all_articles, deduped, candidates, processed, grouped, sent,
                   store0, wfail, dropped, runs, cursor>>
    /\ UNCHANGED <<deliveries, delivered, prevCut, answers, tableVars, groupVars, raceVars>>

\* fetch_rss_feeds, the concatenation and the sort.
FetchRss ==
    /\ pc = "FetchingRss"
    /\ \E feeds \in SeqsUpTo(Feeds, MaxFeeds) :
           /\ rss_articles' = fetch_rss_feeds(feeds)
           /\ all_articles' = sorted_by_published(newsapi_articles \o rss_articles')
    /\ pc' = "Deduping"
    /\ UNCHANGED <<MAX_STORIES, store, newsapi_articles, deduped, candidates,
                   processed, grouped, sent, failure, store0, wfail, dropped,
                   runs, cursor>>
    /\ UNCHANGED <<deliveries, delivered, prevCut, answers, tableVars, groupVars, raceVars>>

\* dedupe_and_filter returns.
Dedupe ==
    /\ pc = "Deduping"
    /\ deduped' = dedupe_and_filter(all_articles, store)
    /\ pc' = "Truncating"
    /\ UNCHANGED <<MAX_STORIES, store, newsapi_articles, rss_articles,
                   all_articles, candidates, processed, grouped, sent, failure,
                   store0, wfail, dropped, runs, cursor>>
    /\ UNCHANGED <<deliveries, delivered, prevCut, answers, tableVars, groupVars, raceVars>>

\* engine.connect() or conn.execute(sel) raises in one of is_seen's calls:
\* nothing in is_seen, dedupe_and_filter or main catches it.
DedupeReadError ==
    /\ pc = "Deduping"
    /\ SeenChecks(all_articles) # {}
    /\ pc' = "Failed"
    /\ failure' = "store_read"
    /\ UNCHANGED <<MAX_STORIES, store, newsapi_articles, rss_articles,
                   all_articles, deduped, candidates, processed, grouped, sent,
                   store0, wfail, dropped, runs, cursor>>
    /\ UNCHANGED <<deliveries, delivered, prevCut, answers, tableVars, groupVars, raceVars>>

\* candidates = candidates[:MAX_STORIES]; processed = []
Truncate ==
    /\ pc = "Truncating"
    /\ candidates' = Take(deduped, MAX_STORIES)
    /\ processed' = <<>>
    /\ cursor' = 0
    /\ pc' = "Enriching"
    /\ UNCHANGED <<MAX_STORIES, store, newsapi_articles, rss_articles,
                   all_articles, deduped, grouped, sent, failure, store0, wfail,
                   dropped, runs>>
    /\ UNCHANGED <<deliveries, delivered, prevCut, answers, tableVars, groupVars, raceVars>>

\* One iteration of the loop over candidates, add_seen returning.
EnrichAndRecord ==
    /\ pc = "Enriching"
    /\ cursor < Len(candidates)
    /\ LET a == candidates[cursor + 1]
       IN  \E resp \in LlmResponses, exec_ok \in BOOLEAN :
               /\ processed' = Enriched(processed, a, resp)
               /\ answers' = Append(answers, resp)
               /\ store' = add_seen(store, a.id, exec_ok)
               /\ wfail' = (wfail \/ (a.id \notin store /\ InsertRaises(store, a.id, exec_ok)))
    /\ cursor' = cursor + 1
    /\ UNCHANGED <<pc, MAX_STORIES, newsapi_articles, rss_articles, all_articles,
                   deduped, candidates, grouped, sent, failure, store0, dropped,
                   runs>>
    /\ UNCHANGED <<deliveries, delivered, prevCut, tableVars, groupVars, raceVars>>

\* One iteration of the loop in which add_seen's engine.connect() raises: the
\* call is outside add_seen's try, and nothing in main catches it.
EnrichConnectError ==
    /\ pc = "Enriching"
    /\ cursor < Len(candidates)
    /\ LET a == candidates[cursor + 1]
       IN  \E resp \in LlmResponses :
               /\ processed' = Enriched(processed, a, resp)
               /\ answers' = Append(answers, resp)
    /\ cursor' = cursor + 1
    /\ pc' = "Failed"
    /\ failure' = "store_write"
    /\ UNCHANGED <<MAX_STORIES, store, newsapi_articles, rss_articles,
                   all_articles, deduped, candidates, grouped, sent, store0,
                   wfail, dropped, runs>>
    /\ UNCHANGED <<deliveries, delivered, prevCut, tableVars, groupVars, raceVars>>

\* The loop is over:  if processed: build_and_send(processed)  else: print.
FinishEnrich ==
    /\ pc = "Enriching"
    /\ cursor = Len(candidates)
    /\ IF ShouldSend(processed)
       THEN /\ pc' = "Grouping"
            /\ deliveries' = deliveries + 1
            /\ delivered' = processed
       ELSE /\ pc' = "Done"
            /\ UNCHANGED <<deliveries, delivered>>
    /\ UNCHANGED <<MAX_STORIES, store, newsapi_articles, rss_articles,
                   all_articles, deduped, candidates, processed, grouped, sent,
                   failure, store0, wfail, dropped, runs, cursor>>
    /\ UNCHANGED <<prevCut, answers, tableVars, groupVars, raceVars>>

\* build_and_send up to the rendered html.
Group ==
    /\ pc = "Grouping"
    /\ ~GroupingRaises(processed)
    /\ grouped' = group_by_topic(processed)
    /\ pc' = "Delivering"
    /\ UNCHANGED <<MAX_STORIES, store, newsapi_articles, rss_articles,
                   all_articles, deduped, candidates, processed, sent, failure,
                   store0, wfail, dropped, runs, cursor>>
    /\ UNCHANGED <<deliveries, delivered, prevCut, answers, tableVars, groupVars, raceVars>>

\* group_by_topic raises TypeError on an unhashable primary tag: the exception
\* leaves build_and_send and main before anything is sent.
GroupRaises ==
    /\ pc = "Grouping"
    /\ GroupingRaises(processed)
    /\ pc' = "Failed"
    /\ failure' = "grouping"
    /\ UNCHANGED <<MAX_STORIES, store, newsapi_articles, rss_articles,
                   all_articles, deduped, candidates, processed, grouped, sent,
                   store0, wfail, dropped, runs, cursor>>
    /\ UNCHANGED <<deliveries, delivered, prevCut, answers, tableVars, groupVars, raceVars>>

\* send_email_via_sendgrid returns.
DeliverOk ==
    /\ pc = "Delivering"
    /\ sent' = TRUE
    /\ pc' = "Done"
    /\ UNCHANGED <<MAX_STORIES, store, newsapi_articles, rss_articles,
                   all_articles, deduped, candidates, processed, grouped,
                   failure, store0, wfail, dropped, runs, cursor>>
    /\ UNCHANGED <<deliveries, delivered, prevCut, answers, tableVars, groupVars, raceVars>>

\* send_email_via_sendgrid raises (configuration missing, or sg.send raises
\* and is re-raised): the exception leaves main.
DeliverRaises ==
    /\ pc = "Delivering"
    /\ pc' = "Failed"
    /\ failure' = "delivery"
    /\ store' = after_send_error(store, store0)
    /\ dropped' = dropped \cup (store \ store0)
    /\ UNCHANGED <<MAX_STORIES, newsapi_articles, rss_articles,
                   all_articles, deduped, candidates, processed, grouped, sent,
                   store0, wfail, runs, cursor>>
    /\ UNCHANGED <<deliveries, delivered, prevCut, answers, tableVars, groupVars, raceVars>>

Next ==
    \/ StartRun
    \/ FetchNewsapiEmpty
    \/ FetchNewsapiOk
    \/ FetchNewsapiRaises
    \/ FetchRss
    \/ Dedupe
    \/ DedupeReadError
    \/ Truncate
    \/ EnrichAndRecord
    \/ EnrichConnectError
    \/ FinishEnrich
    \/ Group
    \/ GroupRaises
    \/ DeliverOk
    \/ DeliverRaises

Spec == Init /\ [][Next]_vars

\* ------------------------------------------------------------------------
\* add_seen and is_seen called in any order with any value, the script being
\* started again in between: the SQLite file keeps the rows
\* ------------------------------------------------------------------------
\* add_seen(article_id): the connection opens; the insert's exception, if
\* any, is swallowed.
TableAddSeen ==
    /\ Len(table) < MaxRows
    /\ \E article_id \in TableKeys, exec_ok \in BOOLEAN :
           /\ table' = InsertRow(table, article_id, exec_ok)
           /\ t_last' = [op |-> "add_seen", key |-> article_id, connected |-> TRUE,
                         exec_ok |-> exec_ok, before |-> table, result |-> FALSE,
                         raised |-> AddSeenRaises(table, article_id, exec_ok, TRUE)]
           /\ t_done' = IF InsertRowRaises(table, article_id, exec_ok)
                        THEN t_done ELSE t_done \cup {article_id}
    /\ UNCHANGED <<t_epoch, mainVars, groupVars, raceVars>>

\* add_seen(article_id) when engine.connect() raises: the call is outside the
\* try, so the exception reaches the caller; nothing is inserted.
TableAddSeenConnectError ==
    /\ \E article_id \in TableKeys :
           t_last' = [op |-> "add_seen", key |-> article_id, connected |-> FALSE,
                      exec_ok |-> FALSE, before |-> table, result |-> FALSE,
                      raised |-> AddSeenRaises(table, article_id, FALSE, FALSE)]
    /\ UNCHANGED <<table, t_done, t_epoch, mainVars, groupVars, raceVars>>

\* is_seen(article_id) returns.
TableIsSeen ==
    /\ \E article_id \in TableKeys :
           t_last' = [op |-> "is_seen", key |-> article_id, connected |-> TRUE,
                      exec_ok |-> TRUE, before |-> table, result |-> SelectRow(table, article_id),
                      raised |-> FALSE]
    /\ UNCHANGED <<table, t_done, t_epoch, mainVars, groupVars, raceVars>>

\* The script ends and is started again: create_engine opens the same file,
\* meta.create_all finds the table.
TableRestart ==
    /\ t_epoch < MaxRestarts
    /\ t_epoch' = t_epoch + 1
    /\ t_last' = [op |-> "none", key |-> NONE, connected |-> FALSE, exec_ok |-> TRUE,
                  before |-> table, result |-> FALSE, raised |-> FALSE]
    /\ UNCHANGED <<table, t_done, mainVars, groupVars, raceVars>>

NextTable ==
    \/ TableAddSeen
    \/ TableAddSeenConnectError
    \/ TableIsSeen
    \/ TableRestart

SpecTable == Init /\ [][NextTable]_vars

\* ------------------------------------------------------------------------
\* group_by_topic called with any list of items
\* ------------------------------------------------------------------------
\* What 'tags' of an item can be: absent or None, [], lists of tag names, a
\* string, a list that starts with a list.
GroupTags ==
    { NoTags, TagList(<<>>), TagList(<<"AI">>), TagList(<<"AI", "Markets">>),
      TagList(<<"Markets">>), TagList(<<"Other">>), ScalarTags, NestedTags }

GroupItems == [title : {<<1>>, <<2>>}, tags : GroupTags]

GroupCall ==
    /\ g_pc = "idle"
    /\ g_items' \in SeqsUpTo(GroupItems, MaxItems)
    /\ g_pc' = "ready"
    /\ UNCHANGED <<g_grouped, mainVars, tableVars, raceVars>>

\* The loop ends and grouped is returned.
GroupReturn ==
    /\ g_pc = "ready"
    /\ ~GroupingRaises(g_items)
    /\ g_grouped' = group_by_topic(g_items)
    /\ g_pc' = "done"
    /\ UNCHANGED <<g_items, mainVars, tableVars, raceVars>>

\* `primary not in grouped` raises TypeError: nothing is returned.
GroupTypeError ==
    /\ g_pc = "ready"
    /\ GroupingRaises(g_items)
    /\ g_pc' = "raised"
    /\ UNCHANGED <<g_items, g_grouped, mainVars, tableVars, raceVars>>

NextGroup ==
    \/ GroupCall
    \/ GroupReturn
    \/ GroupTypeError

SpecGroup == Init /\ [][NextGroup]_vars

\* ------------------------------------------------------------------------
\* The script invoked twice (two cron jobs, two shells) on the same
\* seen_articles.db.  Each invocation runs main() once; a step is one access
\* to the table, with the local computation that precedes it.
\* ------------------------------------------------------------------------
\* The completion call fails or answers plain text: what an item is enriched
\* with plays no part here.
RaceResponses == {resp \in LlmResponses : resp.kind \in {"fail", "text"}}

Running(p) == r_pc[p] \in {"Deduping", "Enriching", "Delivering"}

\* main() up to the call of dedupe_and_filter: fetch, concatenate, sort.
RaceStart(p) ==
    /\ r_pc[p] = "Idle"
    /\ \E data \in SeqsUpTo(NewsRecords, MaxRaceNews),
          feeds \in SeqsUpTo(Feeds, MaxRaceFeeds) :
           r_all' = [r_all EXCEPT ![p] =
                        sorted_by_published(fetch_newsapi(data) \o fetch_rss_feeds(feeds))]
    /\ \E m \in 0..MaxMaxStories : r_max' = [r_max EXCEPT ![p] = m]
    /\ r_pc' = [r_pc EXCEPT ![p] = "Deduping"]
    /\ r_first' = IF r_first = 0 THEN p ELSE r_first
    /\ r_overlap' = (r_overlap \/ \E q \in Procs \ {p} : Running(q))
    /\ UNCHANGED <<r_idx, r_cands, r_processed, r_sent, r_store, r_rec>>
    /\ UNCHANGED <<mainVars, tableVars, groupVars>>

\* requests.get or r.json() raises in fetch_newsapi.
RaceFetchRaises(p) ==
    /\ r_pc[p] = "Idle"
    /\ r_pc' = [r_pc EXCEPT ![p] = "Failed"]
    /\ r_first' = IF r_first = 0 THEN p ELSE r_first
    /\ UNCHANGED <<r_max, r_all, r_idx, r_cands, r_processed, r_sent, r_store,
                   r_rec, r_overlap>>
    /\ UNCHANGED <<mainVars, tableVars, groupVars>>

\* One iteration of the loop of dedupe_and_filter: is_seen reads the table as
\* it is now.
RaceSeenCheck(p) ==
    /\ r_pc[p] = "Deduping"
    /\ r_idx[p] < Len(r_all[p])
    /\ r_cands' = [r_cands EXCEPT ![p] =
                       DedupeFrom(r_cands[p], <<r_all[p][r_idx[p] + 1]>>, r_store)]
    /\ r_idx' = [r_idx EXCEPT ![p] = r_idx[p] + 1]
    /\ UNCHANGED <<r_pc, r_max, r_all, r_processed, r_sent, r_store, r_rec,
                   r_first, r_overlap>>
    /\ UNCHANGED <<mainVars, tableVars, groupVars>>

\* is_seen raises.
RaceReadError(p) ==
    /\ r_pc[p] = "Deduping"
    /\ r_idx[p] < Len(r_all[p])
    /\ Truthy(ItemKey(r_all[p][r_idx[p] + 1]))
    /\ r_pc' = [r_pc EXCEPT ![p] = "Failed"]
    /\ UNCHANGED <<r_max, r_all, r_idx, r_cands, r_processed, r_sent, r_store,
                   r_rec, r_first, r_overlap>>
    /\ UNCHANGED <<mainVars, tableVars, groupVars>>

\* dedupe_and_filter returns; candidates = candidates[:MAX_STORIES].
RaceTruncate(p) ==
    /\ r_pc[p] = "Deduping"
    /\ r_idx[p] = Len(r_all[p])
    /\ r_cands' = [r_cands EXCEPT ![p] = Take(r_cands[p], r_max[p])]
    /\ r_pc' = [r_pc EXCEPT ![p] = "Enriching"]
    /\ UNCHANGED <<r_max, r_all, r_idx, r_processed, r_sent, r_store, r_rec,
                   r_first, r_overlap>>
    /\ UNCHANGED <<mainVars, tableVars, groupVars>>

\* One iteration of the loop of main: enrich, append, add_seen.
RaceEnrichAndRecord(p) ==
    /\ r_pc[p] = "Enriching"
    /\ Len(r_processed[p]) < Len(r_cands[p])
    /\ LET a == r_cands[p][Len(r_processed[p]) + 1]
       IN  \E resp \in RaceResponses, exec_ok \in BOOLEAN :
               /\ r_processed' = [r_processed EXCEPT ![p] = Enriched(r_processed[p], a, resp)]
               /\ r_store' = add_seen(r_store, a.id, exec_ok)
               /\ r_rec' = [r_rec EXCEPT ![p] = r_rec[p] \cup (r_store' \ r_store)]
    /\ UNCHANGED <<r_pc, r_max, r_all, r_idx, r_cands, r_sent, r_first, r_overlap>>
    /\ UNCHANGED <<mainVars, tableVars, groupVars>>

\* The same iteration when add_seen's engine.connect() raises.
RaceConnectError(p) ==
    /\ r_pc[p] = "Enriching"
    /\ Len(r_processed[p]) < Len(r_cands[p])
    /\ LET a == r_cands[p][Len(r_processed[p]) + 1]
       IN  \E resp \in RaceResponses :
               r_processed' = [r_processed EXCEPT ![p] = Enriched(r_processed[p], a, resp)]
    /\ r_pc' = [r_pc EXCEPT ![p] = "Failed"]
    /\ UNCHANGED <<r_max, r_all, r_idx, r_cands, r_sent, r_store, r_rec, r_first,
                   r_overlap>>
    /\ UNCHANGED <<mainVars, tableVars, groupVars>>

\* if processed: build_and_send(processed)  else: print.
RaceFinishEnrich(p) ==
    /\ r_pc[p] = "Enriching"
    /\ Len(r_processed[p]) = Len(r_cands[p])
    /\ r_pc' = [r_pc EXCEPT ![p] =
                    IF ShouldSend(r_processed[p]) THEN "Delivering" ELSE "Done"]
    /\ UNCHANGED <<r_max, r_all, r_idx, r_cands, r_processed, r_sent, r_store,
                   r_rec, r_first, r_overlap>>
    /\ UNCHANGED <<mainVars, tableVars, groupVars>>

\* build_and_send returns: the digest was sent.
RaceDeliverOk(p) ==
    /\ r_pc[p] = "Delivering"
    /\ r_sent' = [r_sent EXCEPT ![p] = TRUE]
    /\ r_pc' = [r_pc EXCEPT ![p] = "Done"]
    /\ UNCHANGED <<r_max, r_all, r_idx, r_cands, r_processed, r_store, r_rec,
                   r_first, r_overlap>>
    /\ UNCHANGED <<mainVars, tableVars, groupVars>>

\* send_email_via_sendgrid raises.
RaceDeliverRaises(p) ==
    /\ r_pc[p] = "Delivering"
    /\ r_pc' = [r_pc EXCEPT ![p] = "Failed"]
    /\ UNCHANGED <<r_max, r_all, r_idx, r_cands, r_processed, r_sent, r_store,
                   r_rec, r_first, r_overlap>>
    /\ UNCHANGED <<mainVars, tableVars, groupVars>>

NextRace ==
    \E p \in Procs :
        \/ RaceStart(p)
        \/ RaceFetchRaises(p)
        \/ RaceSeenCheck(p)
        \/ RaceReadError(p)
        \/ RaceTruncate(p)
        \/ RaceEnrichAndRecord(p)
        \/ RaceConnectError(p)
        \/ RaceFinishEnrich(p)
        \/ RaceDeliverOk(p)
        \/ RaceDeliverRaises(p)

SpecRace == Init /\ [][NextRace]_vars

\* ------------------------------------------------------------------------
\* Vocabulary of the properties
\* ------------------------------------------------------------------------
\* dedupe_and_filter has returned in this run.
Deduped ==
    \/ pc \in {"Truncating", "Enriching", "Grouping", "Delivering", "Done"}
    \/ pc = "Failed" /\ failure \in {"store_write", "grouping", "delivery"}

\* candidates[:MAX_STORIES] has been taken in this run.
Truncated ==
    \/ pc \in {"Enriching", "Grouping", "Delivering", "Done"}
    \/ pc = "Failed" /\ failure \in {"store_write", "grouping", "delivery"}

\* The loop over candidates has ended normally in this run.
EnrichmentComplete == pc \in {"Grouping", "Delivering", "Done"}

Keys(items) == {ItemKey(items[i]) : i \in DOMAIN items}

\* Descending by the published string, a missing one counting as "".
DescByPublished(items) ==
    \A i, j \in DOMAIN items :
        i < j => ~LexLess(SortKey(items[i]), SortKey(items[j]))

Count(items, x) == Cardinality({i \in DOMAIN items : items[i] = x})

SameItems(s, t) ==
    /\ Len(s) = Len(t)
    /\ \A i \in DOMAIN s : Count(s, s[i]) = Count(t, s[i])

\* The position in the sorted batch of the first item with key k.
FirstWithKey(k) ==
    CHOOSE i \in DOMAIN all_articles :
        /\ ItemKey(all_articles[i]) = k
        /\ \A j \in 1..(i - 1) : ItemKey(all_articles[j]) # k

\* processed[i] was made from candidates[i].
MadeFrom(info, a) ==
    /\ info.title = a.title
    /\ info.url = a.url
    /\ info.source = a.source
    /\ info.published = normalize_date(a.published)

\* ------------------------------------------------------------------------
\* C1  Already-seen exclusion: the dedupe output holds no item whose derived
\* key (id, else url, else title) is in the table when it is checked, and an
\* item whose key was in the table when the run started is neither among the
\* candidates, nor enriched, nor delivered in that run.
\* ------------------------------------------------------------------------
C1_AlreadySeenExcluded ==
    /\ pc = "Truncating" => Keys(deduped) \cap store = {}
    /\ Keys(deduped) \cap store0 = {}
    /\ Keys(candidates) \cap store0 = {}
    /\ Len(processed) <= Len(candidates)
    /\ \A i \in DOMAIN processed :
           MadeFrom(processed[i], candidates[i]) /\ ItemKey(candidates[i]) \notin store0

\* A later run that fetched an item recorded by an earlier run, and delivered
\* a digest.
C1_Witness ==
    /\ pc = "Done"
    /\ sent
    /\ \E i \in DOMAIN all_articles : ItemKey(all_articles[i]) \in store0

\* ------------------------------------------------------------------------
\* C2  Every enriched item is recorded under its derived key: once the loop
\* of a run has ended with no insert having failed, the derived key of every
\* enriched item is in the table, whichever of id, url, title gave the key.
\* ------------------------------------------------------------------------
C2_EnrichedAreRecorded ==
    (EnrichmentComplete /\ ~wfail) =>
        \A i \in DOMAIN processed : ItemKey(candidates[i]) \in store

\* ------------------------------------------------------------------------
\* C3  No duplicate emission: the keys of the dedupe output, and so of the
\* candidates, are pairwise distinct, also when the batch holds several items
\* with one key.
\* ------------------------------------------------------------------------
C3_NoDuplicateEmission ==
    /\ \A i, j \in DOMAIN deduped :
           i # j => ItemKey(deduped[i]) # ItemKey(deduped[j])
    /\ \A i, j \in DOMAIN candidates :
           i # j => ItemKey(candidates[i]) # ItemKey(candidates[j])

\* Two items of different adapters share a key, and the key was emitted.
C3_Witness ==
    /\ Deduped
    /\ \E i, j \in DOMAIN all_articles :
           /\ i < j
           /\ ItemKey(all_articles[i]) = ItemKey(all_articles[j])
           /\ all_articles[i].source # all_articles[j].source
           /\ ItemKey(all_articles[i]) \in Keys(deduped)

\* ------------------------------------------------------------------------
\* C4  Truncation bound: the candidates that go on to enrichment are at most
\* MAX_STORIES, and they are the first MAX_STORIES items of the dedupe output
\* (all of it when it is shorter).
\* ------------------------------------------------------------------------
C4_TruncationBound ==
    Truncated =>
        /\ Len(candidates) <= MAX_STORIES
        /\ Len(candidates) = Min(MAX_STORIES, Len(deduped))
        /\ \A i \in DOMAIN candidates : candidates[i] = deduped[i]
        /\ cursor <= MAX_STORIES

\* The dedupe output was longer than a maximum of 2.
C4_Witness ==
    /\ pc = "Done"
    /\ MAX_STORIES = 2
    /\ Len(deduped) > MAX_STORIES
    /\ Len(processed) = 2

\* ------------------------------------------------------------------------
\* C5  Recency order and first occurrence wins: the merged batch and the
\* dedupe output are in descending order of the published string (lexical, a
\* missing one last); every unseen key of the batch is emitted once, as the
\* first item with that key in the sorted batch, in the batch's order; items
\* without a key are skipped.
\* ------------------------------------------------------------------------
C5_RecencyOrderFirstWins ==
    Deduped =>
        /\ SameItems(all_articles, newsapi_articles \o rss_articles)
        /\ DescByPublished(all_articles)
        /\ DescByPublished(deduped)
        /\ \A d \in DOMAIN deduped :
               /\ Truthy(ItemKey(deduped[d]))
               /\ deduped[d] = all_articles[FirstWithKey(ItemKey(deduped[d]))]
        /\ \A d, e \in DOMAIN deduped :
               d < e => FirstWithKey(ItemKey(deduped[d])) < FirstWithKey(ItemKey(deduped[e]))
        /\ \A i \in DOMAIN all_articles :
               (Truthy(ItemKey(all_articles[i])) /\ ItemKey(all_articles[i]) \notin store0)
                   => ItemKey(all_articles[i]) \in Keys(deduped)

\* "2" before "12" before a missing date; a key with two different items and
\* an item without a key in the batch.
C5_Witness ==
    /\ Deduped
    /\ Len(deduped) = 3
    /\ deduped[1].published = <<2>>
    /\ deduped[2].published = <<1, 2>>
    /\ deduped[3].published = NONE
    /\ \E i, j \in DOMAIN all_articles :
           /\ i < j
           /\ ItemKey(all_articles[i]) = ItemKey(all_articles[j])
           /\ all_articles[i] # all_articles[j]

\* ------------------------------------------------------------------------
\* C6  Enrichment total coverage: each candidate the loop has taken has
\* exactly one item in processed, at the same position, whatever the
\* completion call did; when the loop has ended, processed has one item per
\* candidate.
\* ------------------------------------------------------------------------
C6_EnrichmentTotalCoverage ==
    /\ Len(processed) = cursor
    /\ cursor <= Len(candidates)
    /\ \A i \in DOMAIN processed : MadeFrom(processed[i], candidates[i])
    /\ EnrichmentComplete => Len(processed) = Len(candidates)

\* Two candidates, the completion call failed for both, the digest was sent.
C6_Witness ==
    /\ pc = "Done"
    /\ sent
    /\ Len(processed) = 2
    /\ \A i \in DOMAIN processed :
           /\ processed[i].summary = Or(candidates[i].title, <<>>)
           /\ processed[i].tags = TagList(<<"Other">>)
           /\ processed[i].sentiment = "Neutral"
           /\ processed[i].score = DEFAULT_SCORE

\* ------------------------------------------------------------------------
\* C7  Adapter fault isolation: a failure in one source adapter gives an
\* empty result for that adapter, the other adapter's items are still
\* processed, and the run never fails while fetching.
\* ------------------------------------------------------------------------
C7_FetchNeverFails == ~(pc = "Failed" /\ failure = "fetch")

\* ------------------------------------------------------------------------
\* C8  Fail-closed seen check, per item: a failing seen check excludes that
\* item only; the run does not abort.
\* ------------------------------------------------------------------------
C8_ReadErrorDoesNotAbort == ~(pc = "Failed" /\ failure = "store_read")

\* ------------------------------------------------------------------------
\* C9  Store write errors do not block delivery: a failing record is not
\* propagated, the run goes on to enrich, record and deliver.
\* ------------------------------------------------------------------------
C9_WriteErrorNotPropagated == ~(pc = "Failed" /\ failure = "store_write")

\* ------------------------------------------------------------------------
\* C10  Delivery failure is fatal without rollback: when delivery fails the
\* run ends Failed, nothing was sent, every value recorded in that run stays
\* in the table, and no dedupe output of a later run holds an item with such
\* a key.
\* ------------------------------------------------------------------------
C10_DeliveryFailureKeepsRecords ==
    /\ failure = "delivery" => (pc = "Failed" /\ ~sent /\ (store \ store0) \subseteq dropped)
    /\ dropped \subseteq store
    /\ Keys(deduped) \cap (dropped \cap store0) = {}
    /\ Keys(candidates) \cap (dropped \cap store0) = {}

\* A later run fetched an item recorded by a run whose delivery failed.
C10_Witness ==
    /\ Deduped
    /\ \E i \in DOMAIN all_articles : ItemKey(all_articles[i]) \in dropped \cap store0

\* The place of each state of main() in the order the stages are passed.
Rank(p) ==
    CASE p = "Idle" -> 0
      [] p = "Fetching" -> 1
      [] p = "FetchingRss" -> 2
      [] p = "Deduping" -> 3
      [] p = "Truncating" -> 4
      [] p = "Enriching" -> 5
      [] p = "Grouping" -> 6
      [] p = "Delivering" -> 7
      [] p = "Done" -> 8
      [] p = "Failed" -> 8

\* ------------------------------------------------------------------------
\* C11  Delivery is skipped on an empty digest: when the loop over the
\* candidates ends with no enriched item, build_and_send is not called and the
\* run ends in Done, nothing having been sent; when it ends with at least one
\* enriched item, build_and_send is called exactly once, with all the
\* enriched items of the run, and a run that ends in Done has sent them.
\* ------------------------------------------------------------------------
C11_DeliveryIffEnriched ==
    /\ deliveries <= 1
    /\ Rank(pc) <= Rank("Enriching") => deliveries = 0
    /\ deliveries = 1 => (processed # <<>> /\ delivered = processed)
    /\ sent => deliveries = 1
    /\ pc \in {"Grouping", "Delivering"} => deliveries = 1
    /\ (pc = "Failed" /\ failure \in {"grouping", "delivery"}) => deliveries = 1
    /\ (pc = "Failed" /\ failure \notin {"grouping", "delivery"}) => deliveries = 0
    /\ pc = "Done" =>
           IF processed = <<>>
           THEN deliveries = 0 /\ ~sent /\ failure = "none"
           ELSE deliveries = 1 /\ sent

\* Articles were fetched, none was enriched, and the run ended in Done
\* without a call of build_and_send.
C11_Witness ==
    /\ pc = "Done"
    /\ all_articles # <<>>
    /\ processed = <<>>
    /\ cursor = Len(candidates)
    /\ deliveries = 0
    /\ ~sent

\* A step that changes the table is the loop iteration for candidates[cursor'],
\* which has appended that candidate's info to processed; build_and_send has
\* not been called.
RecordStep ==
    store' # store =>
        /\ pc = "Enriching"
        /\ pc' = "Enriching"
        /\ deliveries' = 0
        /\ Len(processed') = Len(processed) + 1
        /\ Len(processed') = cursor'
        /\ MadeFrom(processed'[cursor'], candidates[cursor'])
        /\ store' = store \cup {candidates[cursor'].id}

\* A step moves main() forward, starts a new invocation, or is one more
\* iteration of the loop.
StagesInOrder ==
    /\ (pc' # pc /\ pc' # "Fetching") => Rank(pc') > Rank(pc)
    /\ (pc' # pc /\ pc' = "Fetching") => pc \in {"Idle", "Done", "Failed"}
    /\ (pc' = pc /\ runs' = runs) => pc = "Enriching"

\* ------------------------------------------------------------------------
\* C12  Record-after-enrich ordering: within a run the table gets a row only
\* in the loop iteration that has just appended the item's info to processed,
\* the row is that item's id, no row is written for an item that was not
\* enriched, every row is written before build_and_send is called, and the
\* stages of main() are passed in order with no step back.
\* ------------------------------------------------------------------------
C12_RecordAfterEnrich ==
    /\ [](store \ store0 \subseteq
              {candidates[i].id : i \in DOMAIN candidates \cap DOMAIN processed})
    /\ [][RecordStep /\ StagesInOrder]_vars

\* Two items were enriched and recorded, then the digest was sent.
C12_Witness ==
    /\ pc = "Done"
    /\ sent
    /\ Len(processed) = 2
    /\ Cardinality(store \ store0) = 2
    /\ store \ store0 = {candidates[i].id : i \in DOMAIN candidates}

\* ------------------------------------------------------------------------
\* C14  Fixed-shape Enrichment: every item build_and_send is called with has
\* a non-empty list of tags and a sentiment that is Positive, Neutral or
\* Negative, whatever the completion call did; when it answered a JSON
\* object without tags, or with an empty list of tags, the item's tags are
\* ["Other"].
\* ------------------------------------------------------------------------
C14_FixedShapeEnrichment ==
    \A i \in DOMAIN delivered :
        /\ delivered[i].tags.kind = "list"
        /\ delivered[i].tags.items # <<>>
        /\ delivered[i].sentiment \in {"Positive", "Neutral", "Negative"}
        /\ (answers[i].isdict /\ answers[i].tags \in {NoTags, TagList(<<>>)})
               => delivered[i].tags = TagList(<<"Other">>)

\* ------------------------------------------------------------------------
\* C15  Degradation tiers: when the completion call fails, the item's summary
\* is its own title ("" when it has none); when an answer comes that is not
\* a JSON object (text json.loads rejects, or JSON of another type), the
\* summary is the answer's raw text cut to SUMMARY_LIMIT characters; in both
\* cases the tags are ["Other"], the sentiment is Neutral and the score is
\* the default, and the run does not fail.
\* ------------------------------------------------------------------------
C15_DegradationTiers ==
    \A i \in DOMAIN processed :
        /\ answers[i].kind = "fail" =>
               /\ processed[i].summary = Or(candidates[i].title, <<>>)
               /\ processed[i].tags = TagList(<<"Other">>)
               /\ processed[i].sentiment = "Neutral"
               /\ processed[i].score = DEFAULT_SCORE
        /\ (answers[i].kind # "fail" /\ ~answers[i].isdict) =>
               /\ processed[i].summary = Take(answers[i].out, SUMMARY_LIMIT)
               /\ processed[i].tags = TagList(<<"Other">>)
               /\ processed[i].sentiment = "Neutral"
               /\ processed[i].score = DEFAULT_SCORE

\* ------------------------------------------------------------------------
\* C18  The seen_articles table is append-only and changed only by add_seen:
\* every step keeps all the rows there are, in every run and from one run to
\* the next, whether the run ends in Done or in Failed; a step that adds a
\* row is an iteration of the enrichment loop, so fetching, dedupe,
\* truncation, grouping and delivery leave the table as it is.
\* ------------------------------------------------------------------------
C18_StoreAppendOnly ==
    [][ /\ store \subseteq store'
        /\ store' # store => (pc = "Enriching" /\ pc' = "Enriching")
        /\ store0' \subseteq store' ]_vars

\* The second run, started after a run whose delivery failed, has added rows
\* to the rows that run left.
C18_Witness ==
    /\ runs = 2
    /\ dropped # {}
    /\ dropped \subseteq store0
    /\ store0 \subseteq store
    /\ store # store0

\* ------------------------------------------------------------------------
\* C19  Items cut by truncation are not marked seen: an item of the dedupe
\* output beyond the first MAX_STORIES is not a candidate, is not enriched and
\* its key is not written to the table in that run; when the next run fetches
\* it again it passes dedupe, and if it is then within the first MAX_STORIES
\* it is enriched.
\* ------------------------------------------------------------------------
C19_CutItemsNotMarkedSeen ==
    /\ Truncated =>
           /\ CutKeys \cap (store \ store0) = {}
           /\ CutKeys \cap Keys(candidates) = {}
           /\ \A i \in DOMAIN processed : ItemKey(candidates[i]) \notin CutKeys
    /\ prevCut \cap store0 = {}
    /\ Deduped => (prevCut \cap Keys(all_articles)) \subseteq Keys(deduped)
    /\ EnrichmentComplete =>
           \A i \in DOMAIN deduped :
               (ItemKey(deduped[i]) \in prevCut /\ i <= MAX_STORIES) =>
                   /\ i \in DOMAIN processed
                   /\ MadeFrom(processed[i], deduped[i])

\* An item the previous run cut off was enriched and sent by this run.
C19_Witness ==
    /\ pc = "Done"
    /\ sent
    /\ \E i \in DOMAIN processed : ItemKey(candidates[i]) \in prevCut

\* ------------------------------------------------------------------------
\* C13  Idempotent record: add_seen of a value that already has a row leaves
\* the table as it is and raises nothing, so there is never more than one row
\* for a value; is_seen of a value is true exactly when a row for it exists,
\* and it is true for every value whose insert succeeded at any earlier time,
\* also before the script was started again.  (The table as a set of values
\* changes as add_seen and is_seen of the pipeline model say.)
\* ------------------------------------------------------------------------
C13_IdempotentRecord ==
    /\ \A i, j \in DOMAIN table : table[i] = table[j] => i = j
    /\ t_done = Range(table)
    /\ (t_last.op = "add_seen" /\ SelectRow(t_last.before, t_last.key)) =>
           /\ table = t_last.before
           /\ t_last.connected => ~t_last.raised
           /\ Cardinality({i \in DOMAIN table : table[i] = t_last.key}) = 1
           /\ SelectRow(table, t_last.key)
    /\ (t_last.op = "add_seen" /\ t_last.connected) =>
           Range(table) = add_seen(Range(t_last.before), t_last.key, t_last.exec_ok)
    /\ t_last.op = "is_seen" =>
           /\ t_last.result = is_seen(Range(table), t_last.key)
           /\ t_last.key \in t_done => t_last.result

\* After the script was started again, add_seen was called for a value that
\* had a row already.
C13_Witness ==
    /\ t_epoch > 0
    /\ t_last.op = "add_seen"
    /\ t_last.connected
    /\ t_last.exec_ok
    /\ ~t_last.raised
    /\ SelectRow(t_last.before, t_last.key)
    /\ Len(table) >= 2

\* The number of places x has in the groups of a grouping.
RECURSIVE PlacesIn(_, _)
PlacesIn(groups, x) ==
    IF groups = <<>> THEN 0
    ELSE Count(Head(groups).items, x) + PlacesIn(Tail(groups), x)

RECURSIVE SumOfLengths(_)
SumOfLengths(groups) ==
    IF groups = <<>> THEN 0
    ELSE Len(Head(groups).items) + SumOfLengths(Tail(groups))

\* The items of s that are in group g, in the order of s.
ItemsOf(s, g) ==
    LET InGroup(it) == \E j \in DOMAIN g.items : g.items[j] = it
    IN  SelectSeq(s, InGroup)

\* The first position in s of an item of group g.
FirstOf(s, g) ==
    CHOOSE i \in DOMAIN s :
        /\ \E j \in DOMAIN g.items : g.items[j] = s[i]
        /\ \A k \in 1..(i - 1) : \A j \in DOMAIN g.items : g.items[j] # s[k]

\* ------------------------------------------------------------------------
\* C16  Grouping conservation: for every list of items, items with empty,
\* missing or malformed tags included, group_by_topic returns a grouping, the
\* lengths of its groups add up to the length of the list, and every item
\* has as many places in the groups as it has in the list.
\* ------------------------------------------------------------------------
C16_GroupingConservation ==
    g_pc \in {"done", "raised"} =>
        /\ g_pc = "done"
        /\ SumOfLengths(g_grouped) = Len(g_items)
        /\ \A i \in DOMAIN g_items :
               PlacesIn(g_grouped, g_items[i]) = Count(g_items, g_items[i])

\* ------------------------------------------------------------------------
\* C17  Grouping by primary tag: in the grouping group_by_topic returns each
\* item is in the group named by the first element of its tags, or in the
\* group "Other" when its tags are an empty list or absent; each group holds
\* its items in the order of the input list, no two groups have the same
\* name, and the groups are in the order in which their first items come in
\* the input list.
\* ------------------------------------------------------------------------
C17_GroupedByPrimaryTag ==
    g_pc = "done" =>
        /\ \A i \in DOMAIN g_items : PlacesIn(g_grouped, g_items[i]) > 0
        /\ \A g \in DOMAIN g_grouped :
               /\ g_grouped[g].items # <<>>
               /\ \A j \in DOMAIN g_grouped[g].items :
                      LET tags == g_grouped[g].items[j].tags
                      IN  /\ (tags.kind = "list" /\ tags.items # <<>>)
                                 => g_grouped[g].tag = tags.items[1]
                          /\ (tags.kind = "none" \/ tags = TagList(<<>>))
                                 => g_grouped[g].tag = "Other"
               /\ g_grouped[g].items = ItemsOf(g_items, g_grouped[g])
        /\ \A g, h \in DOMAIN g_grouped :
               /\ g_grouped[g].tag = g_grouped[h].tag => g = h
               /\ g < h => FirstOf(g_items, g_grouped[g]) < FirstOf(g_items, g_grouped[h])

\* Three items were grouped into AI, with two items, and Other; the second
\* item of the input has no tags and is the first of group Other.
C17_Witness ==
    /\ g_pc = "done"
    /\ Len(g_items) = 3
    /\ Len(g_grouped) = 2
    /\ Len(g_grouped[1].items) = 2
    /\ g_grouped[1].tag = "AI"
    /\ g_grouped[2].tag = "Other"
    /\ g_grouped[2].items[1].tags = NoTags
    /\ g_items[2] = g_grouped[2].items[1]

\* The keys of the items invocation p has enriched.
EnrichedKeys(p) == {ItemKey(r_cands[p][i]) : i \in DOMAIN r_processed[p]}

\* ------------------------------------------------------------------------
\* C20  At-most-once delivery per key holds for invocations that do not
\* overlap: when the second one starts after the first has ended, it enriches
\* no item whose key the first one wrote to the table.  The check in
\* dedupe_and_filter and the insert after enrichment are separate steps, so
\* two overlapping invocations can both enrich and send an item with the
\* same key (the state C20_Witness, which is reachable).
\* ------------------------------------------------------------------------
C20_AtMostOnceWithoutOverlap ==
    \A p, q \in Procs :
        (p # q /\ r_first = p /\ ~r_overlap) =>
            /\ Running(q) => ~Running(p)
            /\ r_rec[p] \cap EnrichedKeys(q) = {}

\* Both invocations have sent a digest with an item of the same key, which
\* is in the table.
C20_Witness ==
    /\ r_overlap
    /\ r_sent[1]
    /\ r_sent[2]
    /\ \E k \in EnrichedKeys(1) \cap EnrichedKeys(2) : k \in r_store

====
